---- MODULE Spec2Model ----
(***************************************************************************)
(* A model of flpborba/alshehhi, the IND-CCA adaptation of Loidreau's      *)
(* rank-metric public-key encryption scheme.                               *)
(*                                                                         *)
(*   alshehhi/io.py      the bit codec            (specification SpecCodec) *)
(*   alshehhi/matrix.py  the samplers            (specification SpecMatrix) *)
(*   alshehhi/matrix.py  the retry loop          (specification SpecLoop)   *)
(*   alshehhi/key.py     keys, DER / PEM          (specification SpecKey)   *)
(*   alshehhi/cipher.py  Enc and Dec              (specification Spec)      *)
(*                                                                         *)
(* Field elements are the integers of their integer_representation(), a    *)
(* vector is a sequence of them, a matrix a sequence of rows, a byte       *)
(* string a sequence of integers in 0..255, a bit string a sequence of 0   *)
(* and 1.  A call's outcome is a record [err, val]: err is "none" when the *)
(* call returns val, and the exception's class name when it raises.        *)
(***************************************************************************)
EXTENDS Integers, Sequences, FiniteSets, TLC

VARIABLES
    cpc,      \* codec, samplers: the calls made so far on the object under test
    cin,      \* codec, samplers: the input of the first call
    cmid,     \* codec, samplers: the outcome of the first call
    cout,     \* codec: the outcome of the second call (a round trip)
    pc,       \* cipher: "start", "key", "ciphertext" or "decrypted"
    lvl,      \* cipher: the security level of the key, the hash and the XOF
    skey,     \* cipher: the secret key generate returned
    pkey,     \* cipher: the outcome of skey.public_key()
    pt,       \* cipher: the plaintext handed to Enc
    ct,       \* cipher: the byte string that will be handed to Dec
    origin,   \* cipher: who made ct: "Enc", "Forge" or "Tamper"
    res,      \* cipher: the outcome of Dec
    kpc,      \* keys: the calls made so far
    ksk,      \* keys: the secret key generate returned
    kder,     \* keys: the DER bytes at hand
    kpem,     \* keys: the PEM text at hand
    kimp      \* keys: the outcome of the import

codecVars == <<cpc, cin, cmid, cout>>

cipherVars == <<pc, lvl, skey, pkey, pt, ct, origin, res>>

keyVars == <<kpc, ksk, kder, kpem, kimp>>

vars == <<codecVars, cipherVars, keyVars>>

-----------------------------------------------------------------------------
(* Generic helpers.                                                        *)

Min(a, b) == IF a <= b THEN a ELSE b

CeilDiv(a, b) == (a + b - 1) \div b

Ok(v) == [err |-> "none", val |-> v]

Raise(kind) == [err |-> kind, val |-> <<>>]

\* Python's s[i:] for 0 <= i, on a sequence
DropFirst(s, i) == SubSeq(s, i + 1, Len(s))

\* Python's s[-n:]: the last n items, and the whole of s when n = 0 or n >= len(s)
LastN(s, n) == IF n = 0 \/ n >= Len(s) THEN s ELSE SubSeq(s, Len(s) - n + 1, Len(s))

\* the sequence f, evaluated once: TLC keeps [i \in 1..n |-> e] unevaluated and
\* would compute e again at every use of an entry
List(f) == f \o <<>>

\* the function f as a table, each value computed once
Table(f) == f @@ <<>>

RECURSIVE Flatten(_)
Flatten(ss) ==
    IF ss = <<>> THEN <<>>
    ELSE IF Len(ss) = 1 THEN ss[1]
    ELSE Flatten(SubSeq(ss, 1, Len(ss) \div 2)) \o Flatten(DropFirst(ss, Len(ss) \div 2))

RECURSIVE Pow2(_)
Pow2(n) == IF n = 0 THEN 1 ELSE 2 * Pow2(n - 1)

\* The sequences over S of length 0..n
SeqsUpTo(S, n) == UNION {[1..l -> S] : l \in 0..n}

-----------------------------------------------------------------------------
(* Bits and bytes: Python's int(bits, 2), int.to_bytes, f"{byte:08b}".     *)

\* io.py line 22
BYTE_SIZE == 8

\* the w-bit big-endian binary digits of v, 0 <= v < 2^w
RECURSIVE IntToBits(_, _)
IntToBits(v, w) == IF w = 0 THEN <<>> ELSE Append(IntToBits(v \div 2, w - 1), v % 2)

\* int(bits, 2) of a non-empty digit string
RECURSIVE BitsToInt(_)
BitsToInt(bits) ==
    IF bits = <<>> THEN 0
    ELSE 2 * BitsToInt(SubSeq(bits, 1, Len(bits) - 1)) + bits[Len(bits)]

\* "".join(f"{byte:08b}" for byte in data)
BytesToBits(data) == Flatten(List([i \in 1..Len(data) |-> IntToBits(data[i], BYTE_SIZE)]))

\* int(bits, 2).to_bytes(num_bytes, "big"), for len(bits) <= 8 * num_bytes: the
\* integer loses the leading zeros of bits, to_bytes puts zeros back in front
IntToBytes(bits, num_bytes) ==
    LET fill   == List([i \in 1..(BYTE_SIZE * num_bytes - Len(bits)) |-> 0])
        padded == fill \o bits
    IN  List([i \in 1..num_bytes |->
            BitsToInt(SubSeq(padded, BYTE_SIZE * (i - 1) + 1, BYTE_SIZE * i))])

\* textwrap.wrap(text, width) on a string of digits (no white space): the
\* pieces of width characters, the last one shorter
wrap(text, width) ==
    List([i \in 1..CeilDiv(Len(text), width) |->
        SubSeq(text, width * (i - 1) + 1, Min(width * i, Len(text)))])

-----------------------------------------------------------------------------
(* alshehhi/io.py.  An element carries its field: [deg, val], deg the      *)
(* degree m of GF(2^m) and val its integer representation.  GF(2) is the   *)
(* field of degree 1.  A space is [kind, deg, n] (n the degree of a vector *)
(* space, or the dimension rows * columns of a matrix space, with its      *)
(* number of columns in cols).                                             *)

None == -1

Elem(m, v) == [deg |-> m, val |-> v]

Elems(m, vs) == List([i \in 1..Len(vs) |-> Elem(m, vs[i])])

Vals(elems) == List([i \in 1..Len(elems) |-> elems[i].val])

FieldOf(m) == [kind |-> "field", deg |-> m, n |-> 1, cols |-> 1]

VectorSpace(m, n) == [kind |-> "vector", deg |-> m, n |-> n, cols |-> n]

MatrixSpace(m, r, c) == [kind |-> "matrix", deg |-> m, n |-> r * c, cols |-> c]

\* io.py to_str: the coefficients, most significant first, padded to deg digits
to_str(elem) ==
    IF elem.deg = 1 THEN (IF elem.val = 0 THEN <<0>> ELSE <<1>>)
    ELSE IntToBits(elem.val, elem.deg)

\* io.py encode_elem
encode_elem(elem) ==
    IF elem.deg = 1 THEN (IF elem.val = 0 THEN <<0>> ELSE <<1>>)
    ELSE LET num_bytes == CeilDiv(elem.deg, BYTE_SIZE)
         IN  IntToBytes(IntToBits(elem.val, elem.deg), num_bytes)

\* io.py encode_elem_list; int("", 2) raises ValueError
encode_elem_list(elems) ==
    LET bits      == Flatten(List([i \in 1..Len(elems) |-> to_str(elems[i])]))
        num_bytes == CeilDiv(Len(bits), BYTE_SIZE)
    IN  IF bits = <<>> THEN Raise("ValueError")
        ELSE Ok(IntToBytes(bits, num_bytes))

\* io.py decode_elem_list; num_of_elems = None when the argument is left out
decode_elem_list(data, m, num_of_elems) ==
    LET bits        == BytesToBits(data)
        num_bits    == Len(data) * BYTE_SIZE
        padding_len == IF num_of_elems = None THEN num_bits % m
                       ELSE num_bits - m * num_of_elems
    IN  IF padding_len < 0 THEN Raise("ValueError")
        ELSE IF m = 1 THEN Ok(Elems(1, bits))
        ELSE LET chunks == wrap(DropFirst(bits, padding_len), m)
             IN  Ok(List([i \in 1..Len(chunks) |-> Elem(m, BitsToInt(chunks[i]))]))

\* io.py decode_elem with a field; fetch_int refuses an integer >= 2^m
decode_elem(data, m) ==
    IF m = 1 THEN Ok(Elem(1, IF data = <<0>> THEN 0 ELSE 1))
    ELSE LET v == BitsToInt(BytesToBits(data))
         IN  IF v >= Pow2(m) THEN Raise("ValueError") ELSE Ok(Elem(m, v))

\* io.py encode of a vector or of a matrix, given as the list object.list()
encode(elems) == encode_elem_list(elems)

\* io.py decode.  A vector is the list it is built from; matrix(space, entries)
\* refuses a list that does not hold one entry per cell.
decode(data, space) ==
    IF space.kind = "field" THEN decode_elem(data, space.deg)
    ELSE LET elems == decode_elem_list(data, space.deg, None)
             n     == space.n
         IN  IF elems.err # "none" THEN elems
             ELSE IF space.kind = "vector" THEN Ok(LastN(elems.val, n))
             ELSE IF Len(LastN(elems.val, n)) # n THEN Raise("ValueError")
             ELSE Ok(LastN(elems.val, n))

-----------------------------------------------------------------------------
(* The fields GF(2^m) of the computer-algebra library, for the degrees the *)
(* model uses.  An element is the integer whose binary digits are its      *)
(* coefficients; GF(2^m) is GF(2)[x] modulo the polynomial Modulus(m), of  *)
(* which x is a primitive root.                                            *)

FieldDegrees == {1, 2, 3, 4, 8}

Modulus(m) ==
    CASE m = 1 -> 3
      [] m = 2 -> 7
      [] m = 3 -> 11
      [] m = 4 -> 19
      [] m = 8 -> 285

\* the bitwise exclusive or of two naturals
RECURSIVE XorN(_, _)
XorN(a, b) ==
    IF a = 0 THEN b
    ELSE IF b = 0 THEN a
    ELSE ((a + b) % 2) + 2 * XorN(a \div 2, b \div 2)

XorTab == Table([a \in 0..255 |-> Table([b \in 0..255 |-> XorN(a, b)])])

\* addition of GF(2^m), m <= 8
FAdd(a, b) == XorTab[a][b]

\* x * a in GF(2^m)
Double(m, a) == IF 2 * a >= Pow2(m) THEN XorN(2 * a, Modulus(m)) ELSE 2 * a

\* the product in GF(2^m), by shifting and adding
RECURSIVE ShiftMul(_, _, _)
ShiftMul(m, a, b) ==
    IF b = 0 THEN 0
    ELSE XorN(IF b % 2 = 1 THEN a ELSE 0, ShiftMul(m, Double(m, a), b \div 2))

\* the power x^i of x in GF(2^m)
RECURSIVE PowX(_, _)
PowX(m, i) ==
    IF i = 0 THEN 1
    ELSE LET h  == PowX(m, i \div 2)
             sq == ShiftMul(m, h, h)
         IN  IF i % 2 = 1 THEN Double(m, sq) ELSE sq

ExpTab == Table([m \in FieldDegrees |-> List([i \in 1..(Pow2(m) - 1) |-> PowX(m, i - 1)])])

LogTab ==
    Table([m \in FieldDegrees |->
        List([v \in 1..(Pow2(m) - 1) |-> CHOOSE i \in 1..(Pow2(m) - 1) : ExpTab[m][i] = v])])

\* multiplication of GF(2^m)
FMul(m, a, b) ==
    IF a = 0 \/ b = 0 THEN 0
    ELSE ExpTab[m][((LogTab[m][a] + LogTab[m][b] - 2) % (Pow2(m) - 1)) + 1]

\* the inverse of a # 0 in GF(2^m)
FInv(m, a) == ExpTab[m][(((Pow2(m) - 1) - (LogTab[m][a] - 1)) % (Pow2(m) - 1)) + 1]

\* the Frobenius power a^(2^i)
RECURSIVE Frob(_, _, _)
Frob(m, a, i) == IF i = 0 THEN a ELSE Frob(m, FMul(m, a, a), i - 1)

RECURSIVE XorSum(_)
XorSum(vs) == IF vs = <<>> THEN 0 ELSE FAdd(Head(vs), XorSum(Tail(vs)))

-----------------------------------------------------------------------------
(* Vectors and matrices over GF(2^m): the library's u + v, v * M, A * B,   *)
(* M.rank(), M.inverse().                                                  *)

VecAdd(u, v) == List([i \in 1..Len(u) |-> FAdd(u[i], v[i])])

VecScale(m, c, v) == List([i \in 1..Len(v) |-> FMul(m, c, v[i])])

\* v * M for a matrix M of Len(v) rows and cols columns
VecMat(m, v, M, cols) ==
    List([j \in 1..cols |-> XorSum(List([i \in 1..Len(v) |-> FMul(m, v[i], M[i][j])]))])

MatMul(m, A, B, cols) == List([i \in 1..Len(A) |-> VecMat(m, A[i], B, cols)])

Identity(n) == List([i \in 1..n |-> List([j \in 1..n |-> IF i = j THEN 1 ELSE 0])])

\* M.submatrix(0, first, ncols = count): columns first+1 .. first+count
Columns(M, first, count) ==
    List([i \in 1..Len(M) |-> SubSeq(M[i], first + 1, first + count)])

\* one step of Gauss-Jordan elimination: row p, scaled to lead, is moved to row
\* and column col is cleared in the other rows
Eliminate(m, M, row, col, p, lead) ==
    List([i \in 1..Len(M) |->
        IF i = row THEN lead
        ELSE LET r == IF i = p THEN M[row] ELSE M[i]
             IN  IF r[col] = 0 THEN r ELSE VecAdd(r, VecScale(m, r[col], lead))])

\* Gauss-Jordan elimination from (row, col) on: the reduced row echelon form
RECURSIVE Reduce(_, _, _, _, _)
Reduce(m, M, cols, row, col) ==
    IF row > Len(M) \/ col > cols THEN M
    ELSE LET pivots == {i \in row..Len(M) : M[i][col] # 0}
         IN  IF pivots = {} THEN Reduce(m, M, cols, row, col + 1)
             ELSE LET p == CHOOSE i \in pivots : \A j \in pivots : i <= j
                  IN  Reduce(m, Eliminate(m, M, row, col, p,
                                          VecScale(m, FInv(m, M[p][col]), M[p])),
                             cols, row + 1, col + 1)

RREF(m, M, cols) == Reduce(m, M, cols, 1, 1)

IsZeroVec(v) == \A i \in 1..Len(v) : v[i] = 0

Rank(m, M, cols) ==
    LET R == RREF(m, M, cols) IN Cardinality({i \in 1..Len(R) : ~IsZeroVec(R[i])})

\* M.inverse() of a square matrix; a singular one raises ZeroDivisionError
Inverse(m, M) ==
    LET n == Len(M)
        R == RREF(m, List([i \in 1..n |-> M[i] \o Identity(n)[i]]), 2 * n)
    IN  IF Columns(R, 0, n) = Identity(n) THEN Ok(Columns(R, n, n))
        ELSE Raise("ZeroDivisionError")

\* the rank over GF(2) of the elements of v, each written as its m coefficients
RankF2(m, v) == Rank(1, List([i \in 1..Len(v) |-> IntToBits(v[i], m)]), m)

-----------------------------------------------------------------------------
(* The library's GabidulinCode over GF(2^m): [m, n, k, points], with the   *)
(* generator matrix G[i][j] = points[j]^(2^i), and its decoder, which      *)
(* returns the codeword at rank distance at most floor((n - k) / 2) of the *)
(* received word and raises DecodingError when there is none.              *)

\* GabidulinCode(field, n, k, evaluation_points = points)
GabidulinCode(m, n, k, points) ==
    IF k > n \/ n > m \/ Len(points) # n THEN Raise("ValueError")
    ELSE IF RankF2(m, points) # n THEN Raise("ValueError")
    ELSE Ok([m |-> m, n |-> n, k |-> k, points |-> points])

generator_matrix(c) ==
    List([i \in 1..c.k |-> List([j \in 1..c.n |-> Frob(c.m, c.points[j], i - 1)])])

\* the leading column of a row of a reduced matrix, 0 for a zero row
LeadCol(row) ==
    IF IsZeroVec(row) THEN 0
    ELSE CHOOSE j \in 1..Len(row) : row[j] # 0 /\ \A l \in 1..(j - 1) : row[l] = 0

\* a non-zero solution x of A x = 0, <<>> if none, for the reduced row echelon
\* form R, of cols columns, of A
NullVector(R, cols) ==
    LET lead == {LeadCol(R[i]) : i \in 1..Len(R)} \ {0}
        free == (1..cols) \ lead
    IN  IF free = {} THEN <<>>
        ELSE LET f0 == CHOOSE j \in free : \A l \in free : l <= j
             IN  List([j \in 1..cols |->
                    IF j = f0 THEN 1
                    ELSE IF j \in lead
                         THEN R[CHOOSE i \in 1..Len(R) : LeadCol(R[i]) = j][f0]
                    ELSE 0])

\* the message f with W o f = N, as far as it is determined: W and N are the
\* coefficients of linearized polynomials, j0 the lowest non-zero one of W
RECURSIVE LeftDivide(_, _, _, _, _, _)
LeftDivide(m, N, W, j0, k, f) ==
    IF Len(f) = k THEN f
    ELSE LET i    == Len(f)
             rest == XorSum(List([j \in 1..Min(Len(W) - 1 - j0, i) |->
                        FMul(m, W[j0 + j + 1], Frob(m, f[i - j + 1], j0 + j))]))
             rhs  == FMul(m, FInv(m, W[j0 + 1]), FAdd(N[j0 + i + 1], rest))
         IN  LeftDivide(m, N, W, j0, k, Append(f, Frob(m, rhs, (m - j0) % m)))

\* the decoder's outcome for the solution x = (N, W) of N(g_j) = W(r_j): the
\* message is f = W \ N, its codeword f * G is returned when it lies at rank
\* distance at most tau of r
Interpolated(c, r, tau, x) ==
    LET nN == c.k + tau
        nW == tau + 1
        N  == SubSeq(x, 1, nN)
        W  == SubSeq(x, nN + 1, nN + nW)
    IN  IF x = <<>> \/ IsZeroVec(W) THEN Raise("DecodingError")
        ELSE LET j0 == (CHOOSE j \in 1..nW : W[j] # 0 /\ \A l \in 1..(j - 1) : W[l] = 0) - 1
                 cw == VecMat(c.m, LeftDivide(c.m, N, W, j0, c.k, <<>>),
                              generator_matrix(c), c.n)
             IN  IF RankF2(c.m, VecAdd(r, cw)) <= tau THEN Ok(cw)
                 ELSE Raise("DecodingError")

\* c.decode_to_code(r): N(g_j) = W(r_j) is solved for linearized polynomials
\* N, W of q-degrees below k + tau and at most tau
decode_to_code(c, r) ==
    LET tau == (c.n - c.k) \div 2
        nN  == c.k + tau
        nW  == tau + 1
        A   == List([j \in 1..c.n |->
                  [i \in 1..nN |-> Frob(c.m, c.points[j], i - 1)]
                    \o [i \in 1..nW |-> Frob(c.m, r[j], i - 1)]])
    IN  Interpolated(c, r, tau, NullVector(RREF(c.m, A, nN + nW), nN + nW))

\* c.unencode(cw): the message f of the codeword cw, f * G = cw
unencode(c, cw) ==
    LET G == generator_matrix(c)
        R == RREF(c.m, List([j \in 1..c.n |->
                         Append(List([i \in 1..c.k |-> G[i][j]]), cw[j])]), c.k + 1)
    IN  List([i \in 1..c.k |-> R[i][c.k + 1]])

-----------------------------------------------------------------------------
(* alshehhi/matrix.py.  A sampler is the set of values it may return: the  *)
(* library draws at random, the model draws at most MaxSeed + 1 candidates *)
(* and keeps those that have the rank the library's sampler guarantees.    *)

\* the candidates of each random draw are numbered 0..MaxSeed
MaxSeed == 1

\* bit i (from 0) of the natural v
Bit(v, i) == (v \div Pow2(i)) % 2

\* the seed-th candidate matrix over GF(2^m)
SampleMatrix(m, rows, cols, seed) ==
    List([i \in 1..rows |-> List([j \in 1..cols |->
        IF (i * i + 3 * j + seed * (i + j) + i * j * (seed + 2)) % 3 = 0 /\ i # j THEN 0
        ELSE PowX(m, (7 * i * i + 11 * j * j * j + 13 * i * j + seed * (3 * i + 5 * j + 1))
                        % (Pow2(m) - 1))])])

\* the seed-th candidate vector of GF(2^m)^n whose entries span, over GF(2),
\* at most rank elements: sum of a_l * b_l for a_l in GF(2^m), b_l in GF(2)^n
SampleVector(m, n, rank, seed) ==
    LET a(l) == PowX(m, (31 * seed + 9 * l * l + 2 * l) % (Pow2(m) - 1))
        b(l) == ((2 * seed + 3) * Pow2(l - 1) + (seed + l) * Pow2(l) + seed \div 2) % Pow2(n)
    IN  List([j \in 1..n |->
            XorSum(List([l \in 1..rank |-> IF Bit(b(l), j - 1) = 1 THEN a(l) ELSE 0]))])

\* one more candidate of the matrix draws: with it as the subfield matrix of P,
\* generate meets a matrix T whose first k columns are linearly dependent
SingularDraw == 6

\* matrix.py random_invertible_matrix
random_invertible_matrix(m, order) ==
    {M \in {SampleMatrix(m, order, order, seed) : seed \in 0..MaxSeed \cup {SingularDraw}} :
        Rank(m, M, order) = order}

\* matrix.py random_rank_vector(VectorSpace(GF(2^m), n), rank)
random_rank_vector(m, n, rank) ==
    {v \in {SampleVector(m, n, rank, seed) : seed \in 0..MaxSeed} : RankF2(m, v) = rank}

\* matrix.py _random_linear_map(GF(2)^d, GF(2)^m): an injective linear map,
\* given by the images in GF(2^m) of the d unit vectors
random_linear_map(d, m) ==
    {w \in {SampleVector(m, d, d, seed + 1) : seed \in 0..MaxSeed} : RankF2(m, w) = d}

\* field(linear_map(vector(e))) for e in GF(2^d): the sum of the images of the
\* unit vectors at the non-zero coefficients of e
ApplyMap(w, e) ==
    XorSum(List([i \in 1..Len(w) |-> IF Bit(e, i - 1) = 1 THEN w[i] ELSE 0]))

\* a lift that adds the identity matrix to the image of the subfield matrix
LiftPlusIdentity(sub, w) ==
    List([i \in 1..Len(sub) |->
        List([j \in 1..Len(sub[i]) |->
            XorN(ApplyMap(w, sub[i][j]), IF i = j THEN 1 ELSE 0)])])

\* subfield_matrix.apply_map(lambda e: field(linear_map(vector(e))))
Lift(sub, w) ==
    List([i \in 1..Len(sub) |-> List([j \in 1..Len(sub[i]) |-> ApplyMap(w, sub[i][j])])])

\* a sampler that draws the matrix from the whole field
random_invertible_subpace_matrix_whole(m, subspace_dimension, order) ==
    IF m < subspace_dimension THEN Raise("ValueError")
    ELSE Ok(random_invertible_matrix(m, order))

\* a sampler that also refuses a subspace as large as the field
random_invertible_subpace_matrix_strict(m, subspace_dimension, order) ==
    IF m <= subspace_dimension THEN Raise("ValueError")
    ELSE Ok({M \in {Lift(sub, w) :
                      sub \in random_invertible_matrix(subspace_dimension, order),
                      w \in random_linear_map(subspace_dimension, m)}
              : Rank(m, M, order) = order})

\* matrix.py random_invertible_subpace_matrix: the matrices the retry loop
\* may end with
random_invertible_subpace_matrix(m, subspace_dimension, order) ==
    IF m < subspace_dimension THEN Raise("ValueError")
    ELSE Ok({M \in {Lift(sub, w) :
                      sub \in random_invertible_matrix(subspace_dimension, order),
                      w \in random_linear_map(subspace_dimension, m)}
              : Rank(m, M, order) = order})

-----------------------------------------------------------------------------
(* alshehhi/hash.py.  SHA-3 and SHAKE are oracles of the scheme: the model *)
(* takes for them two fixed functions of the input bytes, with the digest  *)
(* sizes scaled to the scaled parameter table below.                       *)

Levels == {128, 192, 256}

\* hash.py SHA3.digest_size, in bytes
digest_size(level) ==
    CASE level = 128 -> 1
      [] level = 192 -> 2
      [] level = 256 -> 1

RECURSIVE Absorb(_, _)
Absorb(data, start) ==
    IF data = <<>> THEN start
    ELSE (29 * Absorb(SubSeq(data, 1, Len(data) - 1), start) + data[Len(data)] + 1) % 256

\* hash.py SHA3.__call__
SHA3(level, data) ==
    List([i \in 1..digest_size(level) |->
            (Absorb(data, 89 + level) * (2 * i - 1) + 7 * i) % 256])

\* hash.py SHAKE.__call__
SHAKE(level, data, size) ==
    List([i \in 1..size |-> (Absorb(data, 17 + level) * (2 * i + 1) + 31 * i) % 256])

\* Crypto.Util.strxor.strxor: the terms must have the same length
strxor(a, b) ==
    IF Len(a) # Len(b) THEN Raise("ValueError")
    ELSE Ok(List([i \in 1..Len(a) |-> XorTab[a[i]][b[i]]]))

-----------------------------------------------------------------------------
(* alshehhi/key.py: keys and their generation.  The parameter table is     *)
(* the source's, scaled to GF(2^8): m a multiple of BYTE_SIZE, k <= n <= m *)
(* and 2 * delta <= n - k, as for (64, 58, 28, 3), (96, 62, 32, 3) and     *)
(* (128, 64, 28, 3).                                                       *)

\* key.py _select_parameters: m, n, k, delta
select_parameters(level) ==
    CASE level = 128 -> Ok(<<8, 4, 2, 1>>)
      [] level = 192 -> Ok(<<8, 7, 3, 2>>)
      [] level = 256 -> Ok(<<8, 8, 2, 3>>)
      [] OTHER -> Raise("ValueError")

\* key.py SecretKey.__init__
SecretKey(c, s, p, delta) == [c |-> c, s |-> s, p |-> p, d |-> delta]

\* key.py PublicKey.__init__; m is the degree of the base ring of g
PublicKey(m, g, delta) == [m |-> m, g |-> g, d |-> delta]

\* a public key made with S where the code takes its inverse
public_key_unscrambled(sk) ==
    LET m  == sk.c.m
        pi == Inverse(m, sk.p)
    IN  IF pi.err # "none" THEN pi
        ELSE Ok(PublicKey(m,
                  MatMul(m, MatMul(m, sk.s, generator_matrix(sk.c), sk.c.n), pi.val, sk.c.n),
                  sk.d))

\* key.py SecretKey.public_key
public_key(sk) ==
    LET m  == sk.c.m
        si == Inverse(m, sk.s)
        pi == Inverse(m, sk.p)
    IN  IF si.err # "none" THEN si
        ELSE IF pi.err # "none" THEN pi
        ELSE Ok(PublicKey(m,
                  MatMul(m, MatMul(m, si.val, generator_matrix(sk.c), sk.c.n), pi.val, sk.c.n),
                  sk.d))

\* key.py _random_gabidulin_code
random_gabidulin_code(m, n, k) ==
    {GabidulinCode(m, n, k, points).val : points \in random_rank_vector(m, n, n)}

\* key.py generate, lines 313-316, for the samples c, s, p
MakeSecretKey(c, s, p, delta) ==
    LET m  == c.m
        t  == MatMul(m, MatMul(m, s, generator_matrix(c), c.n), Inverse(m, p).val, c.n)
        s2 == MatMul(m, Inverse(m, s).val, Columns(t, 0, c.k), c.k)
    IN  SecretKey(c, s2, p, delta)

\* key.py generate: the keys it may return
generate(level) ==
    LET par == select_parameters(level)
    IN  IF par.err # "none" THEN par
        ELSE LET m == par.val[1]
                 n == par.val[2]
                 k == par.val[3]
                 delta == par.val[4]
             IN  Ok({MakeSecretKey(c, s, p, delta) :
                        c \in random_gabidulin_code(m, n, k),
                        s \in random_invertible_matrix(m, k),
                        p \in random_invertible_subpace_matrix(m, delta, n).val})

-----------------------------------------------------------------------------
(* alshehhi/cipher.py.  A key is a secret key (c, s, p, d) or a public key *)
(* (m, g, d); the hash and the XOF are named by their security level.      *)

\* key.py SecretKey.m / PublicKey.m, and n, k, delta
KeyM(key) == IF "g" \in DOMAIN key THEN key.m ELSE key.c.m

KeyN(key) == IF "g" \in DOMAIN key THEN Len(key.g[1]) ELSE key.c.n

KeyK(key) == IF "g" \in DOMAIN key THEN Len(key.g) ELSE key.c.k

\* a plaintext size that leaves no room for the verifier hash
plaintext_len_whole(key, hash) == (KeyM(key) * KeyK(key)) \div BYTE_SIZE

\* cipher.py Cipher.plaintext_len
plaintext_len(key, hash) == (KeyM(key) * KeyK(key)) \div BYTE_SIZE - digest_size(hash)

\* cipher.py Cipher.ciphertext_len
ciphertext_len(key) == (KeyM(key) * KeyN(key)) \div BYTE_SIZE

\* a decoding capacity without the factor 2 of the divisor: twice the rank the
\* code corrects
decoding_capacity_whole(key) == (KeyN(key) - KeyK(key)) \div key.d

\* cipher.py Cipher._decoding_capacity
decoding_capacity(key) == (KeyN(key) - KeyK(key)) \div (2 * key.d)

\* the library's vector * matrix: the operands must fit
VecMatChecked(m, v, M, cols) ==
    IF Len(v) # Len(M) THEN Raise("TypeError") ELSE Ok(VecMat(m, v, M, cols))

\* cipher.py Enc.__call__, lines 112-119
EncMessage(pk, xof, extended_plaintext, error) ==
    LET m == KeyM(pk)
        error_hash == SHAKE(xof, error, Len(extended_plaintext))
        message == decode(strxor(extended_plaintext, error_hash).val,
                          VectorSpace(m, KeyK(pk)))
        product == VecMatChecked(m, Vals(message.val), pk.g, KeyN(pk))
    IN  IF product.err # "none" THEN product
        ELSE strxor(encode(Elems(m, product.val)).val, error)

\* cipher.py Enc.__call__ from line 107 on, for the error vector that
\* random_rank_vector returned; flip is xor-ed to the verifier hash (zero for Enc)
EncWith(pk, hash, xof, plaintext, error_vector, flip) ==
    LET error == encode(Elems(KeyM(pk), error_vector)).val
        verifier_hash == strxor(SHA3(hash, error \o plaintext), flip).val
    IN  EncMessage(pk, xof, plaintext \o verifier_hash, error)

\* cipher.py Enc.__call__: the ciphertexts it may return for the plaintext
Enc(pk, hash, xof, plaintext) ==
    {EncWith(pk, hash, xof, plaintext, e, List([i \in 1..digest_size(hash) |-> 0])) :
        e \in random_rank_vector(KeyM(pk), KeyN(pk), decoding_capacity(pk))}

NoVerdict(kind) ==
    [err |-> kind, val |-> <<>>, decoded |-> FALSE,
     hash_verified |-> FALSE, rank_verified |-> FALSE,
     error_vector |-> <<>>, message |-> <<>>]

\* a verdict that rejects as soon as one of the two checks fails
VerdictEither(plaintext, hash_verified, rank_verified, error_vector, message) ==
    [err |-> IF ~hash_verified \/ ~rank_verified THEN "DecodingError" ELSE "none",
     val |-> IF ~hash_verified \/ ~rank_verified THEN <<>> ELSE plaintext,
     decoded |-> TRUE,
     hash_verified |-> hash_verified, rank_verified |-> rank_verified,
     error_vector |-> error_vector, message |-> message]

\* cipher.py Dec.__call__, lines 175-181: the exception or the plaintext, with
\* the two checks and the recovered error vector and message
Verdict(plaintext, hash_verified, rank_verified, error_vector, message) ==
    [err |-> IF ~hash_verified /\ ~rank_verified THEN "DecodingError" ELSE "none",
     val |-> IF ~hash_verified /\ ~rank_verified THEN <<>> ELSE plaintext,
     decoded |-> TRUE,
     hash_verified |-> hash_verified, rank_verified |-> rank_verified,
     error_vector |-> error_vector, message |-> message]

\* a verification that compares the rank with twice the decoding capacity
DecVerifyLooseRank(sk, hash, error_vector, message, error, extended_plaintext) ==
    LET index == plaintext_len(sk, hash)
        plaintext == SubSeq(extended_plaintext, 1, index)
        verifier_hash == DropFirst(extended_plaintext, index)
    IN  Verdict(plaintext,
                verifier_hash = SHA3(hash, error \o plaintext),
                RankF2(KeyM(sk), error_vector) = 2 * decoding_capacity(sk),
                error_vector, message)

\* cipher.py Dec.__call__, lines 172-181
DecVerify(sk, hash, error_vector, message, error, extended_plaintext) ==
    LET index == plaintext_len(sk, hash)
        plaintext == SubSeq(extended_plaintext, 1, index)
        verifier_hash == DropFirst(extended_plaintext, index)
    IN  Verdict(plaintext,
                verifier_hash = SHA3(hash, error \o plaintext),
                RankF2(KeyM(sk), error_vector) = decoding_capacity(sk),
                error_vector, message)

\* cipher.py Dec.__call__ from line 165 on: codeword is the outcome of the decoder
DecCheck(sk, hash, xof, received_word, codeword) ==
    IF codeword.err # "none" THEN NoVerdict(codeword.err)
    ELSE LET m == KeyM(sk)
             error_vector == VecAdd(received_word,
                                    VecMat(m, codeword.val, Inverse(m, sk.p).val, KeyN(sk)))
             error == encode(Elems(m, error_vector)).val
             message == VecMat(m, unencode(sk.c, codeword.val), sk.s, KeyK(sk))
             encoded == encode(Elems(m, message)).val
         IN  DecVerify(sk, hash, error_vector, message, error,
                       strxor(encoded, SHAKE(xof, error, Len(encoded))).val)

\* cipher.py Dec.__call__
Dec(sk, hash, xof, ciphertext) ==
    LET m == KeyM(sk)
        received_word == Vals(decode(ciphertext, VectorSpace(m, KeyN(sk))).val)
        scrambled == VecMatChecked(m, received_word, sk.p, KeyN(sk))
    IN  IF scrambled.err # "none" THEN NoVerdict(scrambled.err)
        ELSE DecCheck(sk, hash, xof, received_word, decode_to_code(sk.c, scrambled.val))

-----------------------------------------------------------------------------
(* The ASN.1 and PEM library the keys are written with: DER objects are    *)
(* tag, length, payload; a length above 127 takes the long form; a decoded *)
(* sequence is the list of its items, each with its tag and its payload.   *)

\* the number of bytes of the natural v, at least one
RECURSIVE ByteLen(_)
ByteLen(v) == IF v < 256 THEN 1 ELSE 1 + ByteLen(v \div 256)

\* the big-endian bytes of the natural v, on count bytes
NatToBytes(v, count) == IntToBytes(IntToBits(v, BYTE_SIZE * count), count)

\* DerObject.encode(): the tag, the definite form of the length, the payload
DerObject(tag, payload) ==
    LET length == Len(payload)
    IN  <<tag>>
          \o (IF length > 127
                 THEN <<128 + ByteLen(length)>> \o NatToBytes(length, ByteLen(length))
               ELSE <<length>>)
          \o payload

\* DerInteger(v).encode() for v >= 0: a zero byte leads when the top bit is set
DerInteger(v) == DerObject(2, NatToBytes(v, ByteLen(2 * v)))

DerOctetString(value) == DerObject(4, value)

\* DerBitString(value).encode(): the payload starts with the count of unused bits
DerBitString(value) == DerObject(3, <<0>> \o value)

\* DerSequence(items).encode() for encoded items
DerSequence(items) == DerObject(48, Flatten(items))

\* the first object of data: its tag, its payload and the bytes after it
DerRead(data) ==
    IF Len(data) < 2 THEN Raise("ValueError")
    ELSE LET more   == IF data[2] > 127 THEN data[2] - 128 ELSE 0
             length == IF more = 0 THEN data[2]
                       ELSE BitsToInt(BytesToBits(SubSeq(data, 3, Min(2 + more, Len(data)))))
         IN  IF data[2] > 127 /\ (more = 0 \/ Len(data) < 2 + more \/ length <= 127)
                 THEN Raise("ValueError")
             ELSE IF Len(data) < 2 + more + length THEN Raise("ValueError")
             ELSE Ok([tag     |-> data[1],
                      payload |-> SubSeq(data, 3 + more, 2 + more + length),
                      rest    |-> DropFirst(data, 2 + more + length)])

\* the objects data is the concatenation of
RECURSIVE DerItems(_)
DerItems(data) ==
    IF data = <<>> THEN Ok(<<>>)
    ELSE LET item == DerRead(data)
         IN  IF item.err # "none" THEN item
             ELSE LET others == DerItems(item.val.rest)
                  IN  IF others.err # "none" THEN others
                      ELSE Ok(<<[tag |-> item.val.tag, payload |-> item.val.payload]>>
                                \o others.val)

\* DerSequence().decode(data): the items of the one sequence data holds
DerSequenceDecode(data) ==
    LET top == DerRead(data)
    IN  IF top.err # "none" THEN top
        ELSE IF top.val.tag # 48 \/ top.val.rest # <<>> THEN Raise("ValueError")
        ELSE DerItems(top.val.payload)

\* DerOctetString().decode(item).payload for each item
OctetPayloads(items) ==
    IF \E i \in 1..Len(items) : items[i].tag # 4 THEN Raise("ValueError")
    ELSE Ok(List([i \in 1..Len(items) |-> items[i].payload]))

\* DerBitString().decode(item).payload
BitStringPayload(item) ==
    IF item.tag # 3 THEN Raise("ValueError")
    ELSE IF item.payload # <<>> /\ item.payload[1] # 0 THEN Raise("ValueError")
    ELSE Ok(item.payload)

\* the integers of a decoded sequence; an item that is no INTEGER is a byte
\* string, and 2 ** m of a byte string is a TypeError
IntegerItems(items) ==
    IF \E i \in 1..Len(items) : items[i].tag # 2 THEN Raise("TypeError")
    ELSE Ok(List([i \in 1..Len(items) |-> BitsToInt(BytesToBits(items[i].payload))]))

\* binascii.b2a_base64: 6 bits a digit, 64 stands for the padding "="
b2a_base64(data) ==
    LET bits   == BytesToBits(data)
        digits == wrap(bits \o List([i \in 1..((6 - (Len(bits) % 6)) % 6) |-> 0]), 6)
    IN  List([i \in 1..Len(digits) |-> BitsToInt(digits[i])])
            \o List([i \in 1..((3 - (Len(data) % 3)) % 3) |-> 64])

\* binascii.a2b_base64
a2b_base64(text) ==
    LET digits == SelectSeq(text, LAMBDA c : c < 64)
        bits   == Flatten(List([i \in 1..Len(digits) |-> IntToBits(digits[i], 6)]))
    IN  List([i \in 1..(Len(bits) \div BYTE_SIZE) |->
            BitsToInt(SubSeq(bits, BYTE_SIZE * (i - 1) + 1, BYTE_SIZE * i))])

\* PEM.encode(data, marker): the two boundaries and, between them, a line of
\* base64 for every 48 bytes
PEMencode(data, marker) ==
    [begin |-> marker,
     lines |-> List([i \in 1..CeilDiv(Len(data), 48) |->
                  b2a_base64(SubSeq(data, 48 * (i - 1) + 1, Min(48 * i, Len(data))))]),
     end   |-> marker]

\* PEM.decode(text): the data and the marker
PEMdecode(text) ==
    IF text.begin # text.end THEN Raise("ValueError")
    ELSE Ok([data |-> a2b_base64(Flatten(text.lines)), marker |-> text.begin])

-----------------------------------------------------------------------------
(* alshehhi/key.py: export and import.                                     *)

\* key.py SecretKey.export_der with the two scramblers in each other's place
export_der_swapped(sk) ==
    DerSequence(<<DerOctetString(encode_elem_list(Elems(sk.c.m, sk.c.points)).val),
                  DerOctetString(encode(Elems(sk.c.m, Flatten(sk.p))).val),
                  DerOctetString(encode(Elems(sk.c.m, Flatten(sk.s))).val),
                  DerSequence(<<DerInteger(sk.c.m), DerInteger(sk.c.n),
                                DerInteger(sk.c.k), DerInteger(sk.d)>>)>>)

\* key.py SecretKey.export_der
export_der(sk) ==
    DerSequence(<<DerOctetString(encode_elem_list(Elems(sk.c.m, sk.c.points)).val),
                  DerOctetString(encode(Elems(sk.c.m, Flatten(sk.s))).val),
                  DerOctetString(encode(Elems(sk.c.m, Flatten(sk.p))).val),
                  DerSequence(<<DerInteger(sk.c.m), DerInteger(sk.c.n),
                                DerInteger(sk.c.k), DerInteger(sk.d)>>)>>)

\* key.py SecretKey.export_pem
export_pem(sk) == PEMencode(export_der(sk), "PRIVATE KEY")

\* key.py PublicKey.export_der: the right block g.submatrix(0, k) is written
export_public_der(pk) ==
    DerSequence(<<DerBitString(encode(Elems(pk.m,
                      Flatten(Columns(pk.g, Len(pk.g), Len(pk.g[1]) - Len(pk.g))))).val),
                  DerSequence(<<DerInteger(pk.m), DerInteger(Len(pk.g[1])),
                                DerInteger(Len(pk.g)), DerInteger(pk.d)>>)>>)

\* key.py PublicKey.export_pem
export_public_pem(pk) == PEMencode(export_public_der(pk), "PUBLIC KEY")

\* key.py import_secret_der, lines 359-363, for the payloads and the parameters
BuildSecretKey(key, m, n, k, delta) ==
    LET points == decode_elem_list(key[1], m, None)
        c == GabidulinCode(m, n, k, Vals(points.val))
        s == decode(key[2], MatrixSpace(m, k, k))
        p == decode(key[3], MatrixSpace(m, n, n))
    IN  IF c.err # "none" THEN c
        ELSE IF s.err # "none" THEN s
        ELSE IF p.err # "none" THEN p
        ELSE Ok(SecretKey(c.val, wrap(Vals(s.val), k), wrap(Vals(p.val), n), delta))

\* key.py import_secret_der, lines 357-363: key holds the items before the
\* last one, parameters the decoded last one
ImportSecretItems(key, parameters) ==
    IF key.err # "none" THEN key
    ELSE IF parameters.err # "none" THEN parameters
    ELSE IF Len(parameters.val) # 4 THEN Raise("ValueError")
    ELSE IF Len(key.val) < 3 THEN Raise("IndexError")
    ELSE BuildSecretKey(key.val, parameters.val[1], parameters.val[2],
                        parameters.val[3], parameters.val[4])

\* key.py import_secret_der
import_secret_der(data) ==
    LET items == DerSequenceDecode(data) IN
    IF items.err # "none" THEN items
    ELSE IF items.val = <<>> THEN Raise("ValueError")
    ELSE ImportSecretItems(
            OctetPayloads(SubSeq(items.val, 1, Len(items.val) - 1)),
            LET last == items.val[Len(items.val)]
                params == DerSequenceDecode(DerObject(last.tag, last.payload))
            IN  IF params.err # "none" THEN params ELSE IntegerItems(params.val))

\* key.py import_secret_pem
import_secret_pem(text) ==
    LET pem == PEMdecode(text)
    IN  IF pem.err # "none" THEN pem
        ELSE IF pem.val.marker # "PRIVATE KEY" THEN Raise("ValueError")
        ELSE import_secret_der(pem.val.data)

\* key.py import_public_der, lines 404-410, for the right block and the parameters
BuildPublicKey(key, m, n, k, delta) ==
    LET right == decode(DropFirst(key, 1), MatrixSpace(m, k, n - k))
    IN  IF right.err # "none" THEN right
        ELSE Ok(PublicKey(m,
                  List([i \in 1..k |-> Identity(k)[i] \o wrap(Vals(right.val), n - k)[i]]),
                  delta))

\* key.py import_public_der, lines 402-410
ImportPublicItems(key, parameters) ==
    IF key.err # "none" THEN key
    ELSE IF parameters.err # "none" THEN parameters
    ELSE IF Len(parameters.val) # 4 THEN Raise("ValueError")
    ELSE BuildPublicKey(key.val, parameters.val[1], parameters.val[2],
                        parameters.val[3], parameters.val[4])

\* key.py import_public_der
import_public_der(data) ==
    LET items == DerSequenceDecode(data) IN
    IF items.err # "none" THEN items
    ELSE IF Len(items.val) # 2 THEN Raise("ValueError")
    ELSE ImportPublicItems(
            BitStringPayload(items.val[1]),
            LET params == DerSequenceDecode(DerObject(items.val[2].tag, items.val[2].payload))
            IN  IF params.err # "none" THEN params ELSE IntegerItems(params.val))

\* key.py import_public_pem
import_public_pem(text) ==
    LET pem == PEMdecode(text)
    IN  IF pem.err # "none" THEN pem
        ELSE IF pem.val.marker # "PUBLIC KEY" THEN Raise("ValueError")
        ELSE import_public_der(pem.val.data)

-----------------------------------------------------------------------------
(* Specification SpecCodec: the codec's functions applied to bounded       *)
(* inputs.  cpc names the calls made, cin holds the input, cmid the        *)
(* outcome of the first call and cout the outcome of a second call made on *)
(* the first one's result.                                                 *)

\* longest list of elements handed to the encoder
MaxLen == 2

\* longest byte string handed to the decoder
MaxBytes == 3

\* most entries of a vector space, and most rows or columns of a matrix space
MaxDim == 2

CodecDegrees == {1, 3, 8, 11, 14}

ValPool(m) == {v \in {0, 1, 5, Pow2(m) - 1} : v < Pow2(m)}

BytePool == {0, 4, 25, 97}

SpacePool ==
    UNION {{VectorSpace(m, n) : n \in 1..MaxDim}
             \cup {MatrixSpace(m, r, c) : r \in 1..MaxDim, c \in 1..MaxDim}
           : m \in CodecDegrees}

NoSpace == [kind |-> "none", deg |-> 0, n |-> 0, cols |-> 0]

NoCall == [err |-> "pending", val |-> <<>>]

Input(elems, data, space) == [elems |-> elems, data |-> data, space |-> space]

\* the state before any call
Init ==
    /\ cpc = "idle"
    /\ cin = Input(<<>>, <<>>, NoSpace)
    /\ cmid = NoCall
    /\ cout = NoCall
    /\ pc = "start"
    /\ lvl = 0
    /\ skey = NoCall
    /\ pkey = NoCall
    /\ pt = <<>>
    /\ ct = <<>>
    /\ origin = "nobody"
    /\ res = NoVerdict("pending")
    /\ kpc = "start"
    /\ ksk = NoCall
    /\ kder = <<>>
    /\ kpem = NoCall
    /\ kimp = NoCall

\* encode_elem_list(elems)
CallEncodeElemList ==
    \E elems \in SeqsUpTo(UNION {{Elem(m, v) : v \in ValPool(m)} : m \in CodecDegrees}, MaxLen) :
        /\ cpc = "idle"
        /\ cpc' = "encode_elem_list"
        /\ cin' = Input(elems, <<>>, NoSpace)
        /\ cmid' = encode_elem_list(elems)
        /\ cout' = NoCall
        /\ UNCHANGED <<cipherVars, keyVars>>

\* decode_elem_list(encode_elem_list(elems), field) for a list of one field
CallDecodeEncodedList ==
    /\ cpc = "encode_elem_list"
    /\ cmid.err = "none"
    /\ \E m \in CodecDegrees :
        /\ \A i \in 1..Len(cin.elems) : cin.elems[i].deg = m
        /\ cout' = decode_elem_list(cmid.val, m, None)
    /\ cpc' = "encode_elem_list;decode_elem_list"
    /\ UNCHANGED <<cin, cmid, cipherVars, keyVars>>

\* decode_elem_list(data, field)
CallDecodeElemList ==
    \E data \in SeqsUpTo(BytePool, MaxBytes), m \in CodecDegrees :
        /\ cpc = "idle"
        /\ cpc' = "decode_elem_list"
        /\ cin' = Input(<<>>, data, FieldOf(m))
        /\ cmid' = decode_elem_list(data, m, None)
        /\ cout' = NoCall
        /\ UNCHANGED <<cipherVars, keyVars>>

\* decode(data, space)
CallDecode ==
    \E data \in SeqsUpTo(BytePool, MaxBytes) \ {<<>>}, space \in SpacePool :
        /\ cpc = "idle"
        /\ cpc' = "decode"
        /\ cin' = Input(<<>>, data, space)
        /\ cmid' = decode(data, space)
        /\ cout' = NoCall
        /\ UNCHANGED <<cipherVars, keyVars>>

\* encode(decode(data, space))
CallEncodeDecoded ==
    /\ cpc = "decode"
    /\ cmid.err = "none"
    /\ cpc' = "decode;encode"
    /\ cout' = encode(cmid.val)
    /\ UNCHANGED <<cin, cmid, cipherVars, keyVars>>

\* encode(v) for a vector or a matrix v of space
CallEncode ==
    \E space \in SpacePool :
        \E vals \in [1..space.n -> ValPool(space.deg)] :
            /\ cpc = "idle"
            /\ cpc' = "encode"
            /\ cin' = Input(Elems(space.deg, vals), <<>>, space)
            /\ cmid' = encode(Elems(space.deg, vals))
            /\ cout' = NoCall
            /\ UNCHANGED <<cipherVars, keyVars>>

\* decode(encode(v), space)
CallDecodeEncoded ==
    /\ cpc = "encode"
    /\ cmid.err = "none"
    /\ cpc' = "encode;decode"
    /\ cout' = decode(cmid.val, cin.space)
    /\ UNCHANGED <<cin, cmid, cipherVars, keyVars>>

\* largest num_of_elems handed to decode_elem_list
MaxCount == 4

\* decode_elem_list(data, field, num_of_elems)
CallDecodeElemListCounted ==
    \E data \in SeqsUpTo(BytePool, MaxBytes), m \in CodecDegrees, num_of_elems \in 0..MaxCount :
        /\ cpc = "idle"
        /\ cpc' = "decode_elem_list counted"
        /\ cin' = [data |-> data, space |-> FieldOf(m), num_of_elems |-> num_of_elems]
        /\ cmid' = decode_elem_list(data, m, num_of_elems)
        /\ cout' = NoCall
        /\ UNCHANGED <<cipherVars, keyVars>>

CodecNext ==
    \/ CallEncodeElemList
    \/ CallDecodeEncodedList
    \/ CallDecodeElemList
    \/ CallDecodeElemListCounted
    \/ CallDecode
    \/ CallEncodeDecoded
    \/ CallEncode
    \/ CallDecodeEncoded

SpecCodec == Init /\ [][CodecNext]_vars

-----------------------------------------------------------------------------
(* Claims about the codec, under SpecCodec.                                *)

\* the number of bytes encode produces for n elements of GF(2^m)
PackedLen(m, n) == CeilDiv(m * n, BYTE_SIZE)

\* C5: encode_elem_list(L) is the concatenation, in list order, of
\* encode_elem(e) for the elements e of L, each element of GF(2^m) taking
\* ceil(m/8) whole bytes.  Stated for the non-empty lists.
C5_PerElementFraming ==
    (cpc = "encode_elem_list" /\ cin.elems # <<>>)
        => (cmid.err = "none" /\ cmid.val = Flatten(List([i \in 1..Len(cin.elems) |->
                                                         encode_elem(cin.elems[i])])))

\* C6: decode_elem_list(data, GF(2^m)) without an element count fails when
\* the byte length of data is not a multiple of ceil(m/8).
C6_TruncatedInputFails ==
    (cpc = "decode_elem_list"
        /\ Len(cin.data) % CeilDiv(cin.space.deg, BYTE_SIZE) # 0)
        => cmid.err # "none"

\* C7: the codec round trip.  decode_elem_list(encode_elem_list(L), F) = L
\* for a non-empty list L of one field, decode(encode(v), space) = v for a
\* vector or matrix v of space, and encode(decode(b, space)) = b for a byte
\* string b of the size encode produces for space.
C7_RoundTrip ==
    /\ cpc = "encode_elem_list;decode_elem_list" => cout = Ok(cin.elems)
    /\ cpc = "encode;decode" => cout = Ok(cin.elems)
    /\ (cpc = "decode;encode"
          /\ Len(cin.data) = PackedLen(cin.space.deg, cin.space.n))
         => cout = Ok(cin.data)

\* C8: decode(data, space) fails unless data encodes exactly the space's n
\* (or rows * columns) elements; stated for the byte lengths that are the
\* size of n elements neither in the per-element framing nor bit-packed.
C8_RefusesInconsistentLength ==
    (cpc = "decode"
        /\ Len(cin.data) # cin.space.n * CeilDiv(cin.space.deg, BYTE_SIZE)
        /\ Len(cin.data) # PackedLen(cin.space.deg, cin.space.n))
        => cmid.err # "none"


-----------------------------------------------------------------------------
(* Specification Spec: a key is generated, a plaintext is encrypted with   *)
(* its public key, or a byte string is made up by somebody who holds the   *)
(* public key, and the byte string is handed to Dec.                       *)

\* the bytes an adversary adds to a ciphertext
TamperPool == {0, 165}

\* the plaintexts of exactly plaintext_len() bytes, made of two byte values
Plaintexts(key, hash) ==
    {p \in SeqsUpTo({0, 77}, plaintext_len(key, hash)) : Len(p) = plaintext_len(key, hash)}

ZeroBytes(n) == List([i \in 1..n |-> 0])

\* sk = generate(level); pk = sk.public_key()
Generate ==
    \E l \in Levels :
        \E key \in generate(l).val :
            /\ pc = "start"
            /\ pc' = "key"
            /\ lvl' = l
            /\ skey' = key
            /\ pkey' = public_key(key)
            /\ UNCHANGED <<pt, ct, origin, res, codecVars, keyVars>>

\* ct = Enc(pk, SHA3(level), SHAKE(level))(plaintext)
Encrypt ==
    /\ pc = "key"
    /\ pkey.err = "none"
    /\ \E plaintext \in Plaintexts(pkey.val, lvl) :
        \E out \in Enc(pkey.val, lvl, lvl, plaintext) :
            /\ out.err = "none"
            /\ pt' = plaintext
            /\ ct' = out.val
    /\ pc' = "ciphertext"
    /\ origin' = "Enc"
    /\ UNCHANGED <<lvl, skey, pkey, res, codecVars, keyVars>>

\* somebody who holds pk computes a ciphertext as Enc does, with an error
\* vector of their choosing (none, one Enc may sample, one of a larger rank)
\* and the verifier hash or, its lowest bit flipped, another digest
Forge ==
    /\ pc = "key"
    /\ pkey.err = "none"
    /\ \E plaintext \in Plaintexts(pkey.val, lvl) :
        \E e \in {List([j \in 1..KeyN(pkey.val) |-> 0])}
                    \cup random_rank_vector(KeyM(pkey.val), KeyN(pkey.val),
                                            decoding_capacity(pkey.val))
                    \cup random_rank_vector(KeyM(pkey.val), KeyN(pkey.val),
                                            decoding_capacity(pkey.val) + 1),
           flip \in {ZeroBytes(digest_size(lvl)), <<1>> \o ZeroBytes(digest_size(lvl) - 1)} :
            \E out \in {EncWith(pkey.val, lvl, lvl, plaintext, e, flip)} :
                /\ out \notin Enc(pkey.val, lvl, lvl, plaintext)
                /\ out.err = "none"
                /\ pt' = plaintext
                /\ ct' = out.val
    /\ pc' = "ciphertext"
    /\ origin' = "Forge"
    /\ UNCHANGED <<lvl, skey, pkey, res, codecVars, keyVars>>

\* a ciphertext of Enc is shortened, lengthened or altered on its way to Dec
Tamper ==
    /\ pc = "ciphertext"
    /\ origin = "Enc"
    /\ \E c \in {DropFirst(ct, 1), SubSeq(ct, 1, Len(ct) - 1)}
                    \cup {<<z>> \o ct : z \in TamperPool}
                    \cup {ct \o <<z>> : z \in TamperPool}
                    \cup {[ct EXCEPT ![i] = XorTab[ct[i]][1]] : i \in {1, Len(ct)}} :
          ct' = c
    /\ origin' = "Tamper"
    /\ UNCHANGED <<pc, lvl, skey, pkey, pt, res, codecVars, keyVars>>

\* Dec(sk, SHA3(level), SHAKE(level))(ct)
Decrypt ==
    /\ pc = "ciphertext"
    /\ pc' = "decrypted"
    /\ res' = Dec(skey, lvl, lvl, ct)
    /\ UNCHANGED <<lvl, skey, pkey, pt, ct, origin, codecVars, keyVars>>

Next ==
    \/ Generate
    \/ Encrypt
    \/ Forge
    \/ Tamper
    \/ Decrypt

Spec == Init /\ [][Next]_vars


-----------------------------------------------------------------------------
(* Claims about the cipher, under Spec.  The two checks of Dec are stated  *)
(* anew from the error vector and the message Dec recovered.               *)

\* the bytes of the error vector Dec recovered
RecoveredError == encode(Elems(KeyM(skey), res.error_vector)).val

\* the message Dec recovered, unmasked: plaintext || verifier hash
RecoveredExtended ==
    LET message == encode(Elems(KeyM(skey), res.message)).val
    IN  strxor(message, SHAKE(lvl, RecoveredError, Len(message))).val

\* the first L_pt bytes of the unmasked message
RecoveredPlaintext == SubSeq(RecoveredExtended, 1, plaintext_len(skey, lvl))

\* the verifier hash is H(e_bytes || pt)
HashHolds ==
    DropFirst(RecoveredExtended, plaintext_len(skey, lvl))
        = SHA3(lvl, RecoveredError \o RecoveredPlaintext)

\* the error vector has rank t
RankHolds == RankF2(KeyM(skey), res.error_vector) = (KeyN(skey) - KeyK(skey)) \div (2 * skey.d)

\* C1: perfect correctness.  Whatever the level, the key generate returned, the
\* plaintext of plaintext_len() bytes and the error vector Enc sampled, Dec
\* returns the plaintext that was encrypted and does not raise.
C1_PerfectCorrectness ==
    (pc = "decrypted" /\ origin = "Enc") => (res.err = "none" /\ res.val = pt)

C1_Witness ==
    /\ pc = "decrypted" /\ origin = "Enc" /\ lvl = 256
    /\ pt = <<77>> /\ res.err = "none" /\ res.val = pt

\* C2: Dec rejects on either failed check.  For a ciphertext of ciphertext_len()
\* bytes on which the decoder succeeds, a rank of the error vector other than t
\* or a verifier hash other than H(e_bytes || pt) makes Dec raise DecodingError
\* and return no plaintext.
C2_RejectsOnEitherCheck ==
    (/\ pc = "decrypted" /\ res.decoded
     /\ Len(ct) = ciphertext_len(skey)
     /\ (~RankHolds \/ ~HashHolds))
        => (res.err = "DecodingError" /\ res.val = <<>>)

\* C3: the rejection rule of Dec.  After the decoder succeeded, Dec raises
\* DecodingError exactly when the verifier hash differs from H(e_bytes || pt)
\* and the rank of the error vector differs from t; when one of the two checks
\* holds it returns the first L_pt bytes of the unmasked message.
C3_RejectsIffBothFail ==
    (pc = "decrypted" /\ res.decoded)
        => /\ res.err = "DecodingError" <=> (~HashHolds /\ ~RankHolds)
           /\ (HashHolds \/ RankHolds) => (res.err = "none" /\ res.val = RecoveredPlaintext)
           /\ res.err \in {"none", "DecodingError"}

C3_Witness ==
    /\ pc = "decrypted" /\ res.decoded /\ origin = "Forge"
    /\ ~HashHolds /\ RankHolds
    /\ res.err = "none" /\ res.val = RecoveredPlaintext

\* C4: a single error kind out of Dec.  Whatever bytes are handed to Dec, the
\* call returns a plaintext of plaintext_len() bytes or raises DecodingError.
C4_OnlyDecodingError ==
    pc = "decrypted"
        => \/ res.err = "none" /\ Len(res.val) = plaintext_len(skey, lvl)
           \/ res.err = "DecodingError"


-----------------------------------------------------------------------------
(* Specification SpecKey: a key is generated, it or its public key is      *)
(* exported in DER or PEM, a field of the DER structure may be shortened   *)
(* or lengthened by whoever carries it, and the result is imported.        *)

\* the payloads a carrier makes of the payload of a field: a byte more or a
\* byte less, in front or at the end
Altered(payload) ==
    {DropFirst(payload, 1), SubSeq(payload, 1, Len(payload) - 1)}
        \cup {<<z>> \o payload : z \in TamperPool}
        \cup {payload \o <<z>> : z \in TamperPool}

\* the DER sequence data with the payload of its i-th item replaced
WithField(data, i, payload) ==
    LET items == DerSequenceDecode(data).val
    IN  DerSequence(List([j \in 1..Len(items) |->
            DerObject(items[j].tag, IF j = i THEN payload ELSE items[j].payload)]))

\* the DER sequences made of data by altering one of the fields that hold
\* field elements: an OCTET STRING, or a BIT STRING after its first byte
ForgedDer(data) ==
    LET items == DerSequenceDecode(data).val
    IN  UNION {IF items[i].tag = 4
                   THEN {WithField(data, i, a) : a \in Altered(items[i].payload)}
               ELSE IF items[i].tag = 3
                   THEN {WithField(data, i, <<0>> \o a) :
                            a \in Altered(DropFirst(items[i].payload, 1))}
               ELSE {} : i \in 1..Len(items)}

\* sk = generate(level)
KeyGenerate ==
    \E l \in Levels :
        \E key \in generate(l).val :
            /\ kpc = "start"
            /\ kpc' = "key"
            /\ ksk' = key
            /\ UNCHANGED <<kder, kpem, kimp, codecVars, cipherVars>>

\* sk.export_der()
ExportSecretDer ==
    /\ kpc = "key"
    /\ kpc' = "secret der"
    /\ kder' = export_der(ksk)
    /\ UNCHANGED <<ksk, kpem, kimp, codecVars, cipherVars>>

\* sk.export_pem()
ExportSecretPem ==
    /\ kpc = "key"
    /\ kpc' = "secret pem"
    /\ kpem' = export_pem(ksk)
    /\ UNCHANGED <<ksk, kder, kimp, codecVars, cipherVars>>

\* sk.public_key().export_der()
ExportPublicDer ==
    /\ kpc = "key"
    /\ \E pk \in {public_key(ksk)} :
        /\ pk.err = "none"
        /\ kder' = export_public_der(pk.val)
    /\ kpc' = "public der"
    /\ UNCHANGED <<ksk, kpem, kimp, codecVars, cipherVars>>

\* sk.public_key().export_pem()
ExportPublicPem ==
    /\ kpc = "key"
    /\ \E pk \in {public_key(ksk)} :
        /\ pk.err = "none"
        /\ kpem' = export_public_pem(pk.val)
    /\ kpc' = "public pem"
    /\ UNCHANGED <<ksk, kder, kimp, codecVars, cipherVars>>

\* a field of the exported structure is shortened or lengthened, or the
\* rowScrambler of a secret key is replaced by another invertible matrix, the
\* identity: a secret key nobody normalised
ForgeDer ==
    /\ kpc \in {"secret der", "public der"}
    /\ \E forged \in ForgedDer(kder)
                        \cup (IF kpc = "secret der"
                              THEN {WithField(kder, 2,
                                        encode(Elems(ksk.c.m, Flatten(Identity(ksk.c.k)))).val)}
                              ELSE {}) :
           kder' = forged
    /\ kpc' = "forged " \o kpc
    /\ UNCHANGED <<ksk, kpem, kimp, codecVars, cipherVars>>

\* import_secret_der(data)
ImportSecretDer ==
    /\ kpc \in {"secret der", "forged secret der"}
    /\ kpc' = kpc \o ";import"
    /\ kimp' = import_secret_der(kder)
    /\ UNCHANGED <<ksk, kder, kpem, codecVars, cipherVars>>

\* import_secret_pem(data)
ImportSecretPem ==
    /\ kpc = "secret pem"
    /\ kpc' = "secret pem;import"
    /\ kimp' = import_secret_pem(kpem)
    /\ UNCHANGED <<ksk, kder, kpem, codecVars, cipherVars>>

\* import_secret_der(data).public_key().export_der(): the imported key is the
\* secret key at hand from now on
ExportImportedPublicDer ==
    /\ kpc \in {"secret der;import", "forged secret der;import"}
    /\ kimp.err = "none"
    /\ \E pk \in {public_key(kimp.val)} :
        /\ pk.err = "none"
        /\ kder' = export_public_der(pk.val)
    /\ ksk' = kimp.val
    /\ kimp' = NoCall
    /\ kpc' = "public der"
    /\ UNCHANGED <<kpem, codecVars, cipherVars>>

\* import_public_der(data)
ImportPublicDer ==
    /\ kpc \in {"public der", "forged public der"}
    /\ kpc' = kpc \o ";import"
    /\ kimp' = import_public_der(kder)
    /\ UNCHANGED <<ksk, kder, kpem, codecVars, cipherVars>>

\* import_public_pem(data)
ImportPublicPem ==
    /\ kpc = "public pem"
    /\ kpc' = "public pem;import"
    /\ kimp' = import_public_pem(kpem)
    /\ UNCHANGED <<ksk, kder, kpem, codecVars, cipherVars>>

NextKey ==
    \/ KeyGenerate
    \/ ExportSecretDer
    \/ ExportSecretPem
    \/ ExportPublicDer
    \/ ExportPublicPem
    \/ ForgeDer
    \/ ImportSecretDer
    \/ ImportSecretPem
    \/ ExportImportedPublicDer
    \/ ImportPublicDer
    \/ ImportPublicPem

SpecKey == Init /\ [][NextKey]_vars

-----------------------------------------------------------------------------
(* Claims about the keys, under SpecKey.                                   *)

\* the byte lengths of the fields of the DER structure at hand that hold field
\* elements: evaluationPoints, rowScrambler, columnScrambler, or rightBlock
FieldLengths ==
    LET items == DerSequenceDecode(kder).val
    IN  IF Len(items) = 2 THEN <<Len(items[1].payload) - 1>>
        ELSE <<Len(items[1].payload), Len(items[2].payload), Len(items[3].payload)>>

\* the byte lengths the declared (m, n, k) imply for those fields
ImpliedLengths ==
    LET m == ksk.c.m
        n == ksk.c.n
        k == ksk.c.k
    IN  IF Len(DerSequenceDecode(kder).val) = 2 THEN <<PackedLen(m, k * (n - k))>>
        ELSE <<PackedLen(m, n), PackedLen(m, k * k), PackedLen(m, n * n)>>

\* C9: the key importers validate lengths.  import_secret_der and
\* import_public_der reject a DER structure in which the byte length of a field
\* differs from the length the declared (m, n, k) imply; no key is built from it.
C9_ImportersValidateLengths ==
    (/\ kpc \in {"forged secret der;import", "forged public der;import"}
     /\ FieldLengths # ImpliedLengths)
        => kimp.err # "none"

\* C10: the secret key round trip.  For every key sk generate returned,
\* import_secret_der(sk.export_der()) and import_secret_pem(sk.export_pem())
\* yield a key with the same code (m, n, k, evaluation points, hence generator
\* matrix), the same S, the same P and the same subspace dimension.
C10_SecretKeyRoundTrip ==
    kpc \in {"secret der;import", "secret pem;import"}
        => /\ kimp.err = "none"
           /\ kimp.val.c = ksk.c
           /\ generator_matrix(kimp.val.c) = generator_matrix(ksk.c)
           /\ kimp.val.s = ksk.s
           /\ kimp.val.p = ksk.p
           /\ kimp.val.d = ksk.d

C10_Witness ==
    /\ kpc = "secret pem;import"
    /\ ksk.c.n = 8
    /\ Len(kpem.lines) > 1
    /\ kimp = Ok(ksk)

\* C11: the public key round trip.  For the public key pk of a secret key that
\* generate or import_secret_der returned, import_public_der(pk.export_der())
\* and import_public_pem(pk.export_pem()) yield a key with the same g, all
\* k * n entries, and the same delta.
C11_PublicKeyRoundTrip ==
    kpc \in {"public der;import", "public pem;import"}
        => /\ kimp.err = "none"
           /\ kimp.val.g = public_key(ksk).val.g
           /\ kimp.val.d = public_key(ksk).val.d

UnscrambledGenerator ==
    MatMul(KeyM(skey), generator_matrix(skey.c), Inverse(KeyM(skey), skey.p).val, KeyN(skey))

\* C13: the public key is systematic.  For every secret key generate returns,
\* public_key().g() is a k x n matrix [I_k | R] with R = T1^-1 * T2 for
\* T = S0 * G(C) * P^-1 = [T1 | T2].
C13_SystematicPublicKey ==
    pc # "start"
        => /\ pkey.err = "none"
           /\ Len(pkey.val.g) = KeyK(skey)
           /\ Columns(pkey.val.g, 0, KeyK(skey)) = Identity(KeyK(skey))
           /\ Columns(pkey.val.g, KeyK(skey), KeyN(skey) - KeyK(skey))
                = MatMul(KeyM(skey),
                         Inverse(KeyM(skey), Columns(UnscrambledGenerator, 0, KeyK(skey))).val,
                         Columns(UnscrambledGenerator, KeyK(skey), KeyN(skey) - KeyK(skey)),
                         KeyN(skey) - KeyK(skey))

\* C14: generate keeps the key invariant.  In every secret key it returns S is
\* invertible, P is invertible and public_key() is derived without error.
C14_GenerateKeepsKeyInvariant ==
    pc # "start"
        => /\ Inverse(KeyM(skey), skey.s).err = "none"
           /\ Inverse(KeyM(skey), skey.p).err = "none"
           /\ pkey.err = "none"

\* C15: sizes.  Every byte string Enc returns has ciphertext_len() =
\* floor(m * n / 8) bytes, the extended plaintext pt || h has floor(m * k / 8) =
\* m * k / 8 bytes, plaintext_len() = floor(m * k / 8) - d_H is positive, and
\* the lengths the codec produces (the ceiling of the bit count) are these
\* floor values; the same arithmetic holds for the unscaled table of
\* key.py _select_parameters (m, n, k, delta) with the digest sizes in bytes of
\* SHA3-256, SHA3-384, SHA3-512.
C15_Sizes ==
    /\ (pc = "ciphertext" /\ origin = "Enc")
        => /\ Len(ct) = ciphertext_len(pkey.val)
           /\ Len(ct) = (KeyM(pkey.val) * KeyN(pkey.val)) \div BYTE_SIZE
           /\ Len(ct) = PackedLen(KeyM(pkey.val), KeyN(pkey.val))
           /\ Len(pt) = plaintext_len(pkey.val, lvl)
           /\ Len(pt) > 0
           /\ Len(pt \o SHA3(lvl, pt)) = (KeyM(pkey.val) * KeyK(pkey.val)) \div BYTE_SIZE
           /\ Len(pt \o SHA3(lvl, pt)) = PackedLen(KeyM(pkey.val), KeyK(pkey.val))
           /\ (KeyM(pkey.val) * KeyK(pkey.val)) % BYTE_SIZE = 0
    /\ \A par \in {<<64, 58, 28, 3, 32>>, <<96, 62, 32, 3, 48>>, <<128, 64, 28, 3, 64>>} :
           /\ CeilDiv(par[1] * par[2], BYTE_SIZE) = (par[1] * par[2]) \div BYTE_SIZE
           /\ CeilDiv(par[1] * par[3], BYTE_SIZE) = (par[1] * par[3]) \div BYTE_SIZE
           /\ (par[1] * par[3]) \div BYTE_SIZE - par[5] > 0

C15_Witness ==
    /\ pc = "ciphertext" /\ origin = "Enc" /\ lvl = 192
    /\ Len(ct) = 7 /\ Len(pt) = 1 /\ Len(SHA3(lvl, pt)) = 2

-----------------------------------------------------------------------------
(* Specification SpecMatrix: random_invertible_subpace_matrix is called on *)
(* a field, a subspace dimension and an order, by a test or by generate.   *)

\* largest subspace dimension handed to the sampler
MaxSub == 4

\* largest order handed to the sampler
MaxOrder == 3

\* m = random_invertible_subpace_matrix(GF(2^deg), subspace_dimension, order);
\* the subfield GF(2^subspace_dimension) is built only when the call gets
\* past the test of the degree
CallSubspaceMatrix ==
    \E deg \in FieldDegrees \ {1}, subspace_dimension \in 2..MaxSub, order \in 1..MaxOrder :
        /\ cpc = "idle"
        /\ pc = "start"
        /\ subspace_dimension \in FieldDegrees \/ subspace_dimension > deg
        /\ \E out \in {random_invertible_subpace_matrix(deg, subspace_dimension, order)} :
              \/ out.err # "none" /\ cmid' = out
              \/ out.err = "none" /\ \E M \in out.val : cmid' = Ok(M)
        /\ cpc' = "random_invertible_subpace_matrix"
        /\ cin' = [deg |-> deg, subspace_dimension |-> subspace_dimension, order |-> order]
        /\ UNCHANGED <<cout, cipherVars, keyVars>>

\* generate(level) calls it for the column scrambler p of the key
GenerateScrambler ==
    /\ cpc = "idle"
    /\ Generate

SpecMatrix == Init /\ [][CallSubspaceMatrix \/ GenerateScrambler]_vars

\* C16: random_invertible_subpace_matrix(GF(2^m), lambda, n) fails with a
\* ValueError exactly when lambda > m; for lambda <= m every matrix it returns
\* is an n x n matrix over GF(2^m) of rank n.
C16_SubspaceMatrix ==
    cpc = "random_invertible_subpace_matrix"
        => /\ cmid.err # "none" <=> cin.subspace_dimension > cin.deg
           /\ cmid.err \in {"none", "ValueError"}
           /\ cmid.err = "none"
                => /\ Len(cmid.val) = cin.order
                   /\ \A i \in 1..cin.order :
                         /\ Len(cmid.val[i]) = cin.order
                         /\ \A j \in 1..cin.order : cmid.val[i][j] \in 0..(Pow2(cin.deg) - 1)
                   /\ Rank(cin.deg, cmid.val, cin.order) = cin.order

C16_Witness ==
    /\ cpc = "random_invertible_subpace_matrix"
    /\ cin = [deg |-> 4, subspace_dimension |-> 2, order |-> 3]
    /\ cmid.err = "none"
    /\ Rank(4, cmid.val, 3) = 3

-----------------------------------------------------------------------------
\* C17: on a ciphertext Enc returned for pt under the public key of the secret
\* key, Dec recovers the error vector Enc sampled and the message vector Enc
\* encoded, and both checks of Dec hold together: the recovered verifier hash
\* is H(e_bytes || pt) and the rank of the recovered error vector is t.
C17_HonestPassesBothChecks ==
    (pc = "decrypted" /\ origin = "Enc")
        => LET m == KeyM(skey)
               zero == ZeroBytes(digest_size(lvl))
               sampled == {e \in random_rank_vector(m, KeyN(skey), decoding_capacity(pkey.val)) :
                              EncWith(pkey.val, lvl, lvl, pt, e, zero) = Ok(ct)}
           IN  /\ sampled # {}
               /\ \A e \in sampled :
                     LET error == encode(Elems(m, e)).val
                         extended_plaintext == pt \o SHA3(lvl, error \o pt)
                         masked == strxor(extended_plaintext,
                                          SHAKE(lvl, error, Len(extended_plaintext))).val
                     IN  /\ res.error_vector = e
                         /\ res.message = Vals(decode(masked, VectorSpace(m, KeyK(skey))).val)
               /\ res.hash_verified /\ res.rank_verified
               /\ HashHolds /\ RankHolds

C17_Witness ==
    /\ pc = "decrypted" /\ origin = "Enc" /\ lvl = 192
    /\ res.hash_verified /\ res.rank_verified
    /\ RankF2(KeyM(skey), res.error_vector) = 1
    /\ res.val = pt

-----------------------------------------------------------------------------
-----------------------------------------------------------------------------
\* C19: the column-scrambler subspace invariant.  Every matrix returned by
\* random_invertible_subpace_matrix(GF(2^m), lambda, n), the p of a generated
\* key included, has all its entries in one GF(2)-subspace of GF(2^m) of
\* dimension lambda: it is the image, entry by entry, of one invertible matrix
\* over GF(2^lambda) under one injective GF(2)-linear map into GF(2^m).
C19_SubspaceInvariant ==
    \A call \in (IF cpc = "random_invertible_subpace_matrix" /\ cmid.err = "none"
                  THEN {<<cin.deg, cin.subspace_dimension, cmid.val>>} ELSE {})
              \cup (IF pc = "key" THEN {<<KeyM(skey), skey.d, skey.p>>} ELSE {}) :
        /\ RankF2(call[1], Flatten(call[3])) <= call[2]
        /\ \E w \in random_linear_map(call[2], call[1]) :
              /\ RankF2(call[1], w) = call[2]
              /\ \A i, j \in 1..Len(call[3]) :
                    call[3][i][j] \in {ApplyMap(w, e) : e \in 0..(Pow2(call[2]) - 1)}
              /\ \E sub \in random_invertible_matrix(call[2], Len(call[3])) :
                    /\ Rank(call[2], sub, Len(call[3])) = Len(call[3])
                    /\ call[3] = Lift(sub, w)

C19_Witness ==
    /\ cpc = "random_invertible_subpace_matrix"
    /\ cin = [deg |-> 8, subspace_dimension |-> 3, order |-> 3]
    /\ cmid.err = "none"
    /\ RankF2(8, Flatten(cmid.val)) = 3

-----------------------------------------------------------------------------
\* C20: decode_elem_list(data, F, num_of_elems = c) returns exactly c elements
\* of F, those of the last c * deg(F) bits of data, and raises an error exactly
\* when data holds fewer than c * deg(F) bits, for every field F of
\* characteristic 2, GF(2) included.
C20_CountedDecode ==
    cpc = "decode_elem_list counted"
        => LET deg  == cin.space.deg
               c    == cin.num_of_elems
               bits == BytesToBits(cin.data)
               skip == Len(bits) - c * deg
           IN  /\ cmid.err # "none" <=> Len(bits) < c * deg
               /\ cmid.err = "none"
                    => /\ Len(cmid.val) = c
                       /\ \A i \in 1..c :
                             cmid.val[i]
                                = Elem(deg, BitsToInt(SubSeq(bits, skip + (i - 1) * deg + 1,
                                                             skip + i * deg)))

-----------------------------------------------------------------------------
\* largest n of the parameters (n, k, lambda) the arithmetic is checked for
MaxN == 12

\* C21: the scrambled error stays inside the decoder's radius.  With
\* t = floor((n - k) / (2 * lambda)), every error vector e of rank t that Enc
\* may sample and the p of the key, whose entries lie in a subspace of
\* dimension lambda, give rank(e * p) <= lambda * t <= floor((n - k) / 2), and
\* t >= 1; the arithmetic holds for all n, k, lambda with lambda >= 1 and
\* 2 * lambda <= n - k, the three sets of the table included.
C21_ScrambledErrorInRadius ==
    pc = "key"
        => /\ \A e \in random_rank_vector(KeyM(skey), KeyN(skey), decoding_capacity(skey)) :
                 /\ RankF2(KeyM(skey), e) = decoding_capacity(skey)
                 /\ RankF2(KeyM(skey), VecMat(KeyM(skey), e, skey.p, KeyN(skey)))
                        <= skey.d * decoding_capacity(skey)
           /\ skey.d * decoding_capacity(skey) <= (KeyN(skey) - KeyK(skey)) \div 2
           /\ decoding_capacity(skey) >= 1
           /\ \A par \in {<<n, k, lambda>> : n \in 1..MaxN, k \in 1..MaxN, lambda \in 1..MaxN}
                          \cup {<<58, 28, 3>>, <<62, 32, 3>>, <<64, 28, 3>>} :
                 2 * par[3] <= par[1] - par[2]
                    => /\ (par[1] - par[2]) \div (2 * par[3]) >= 1
                       /\ par[3] * ((par[1] - par[2]) \div (2 * par[3]))
                            <= (par[1] - par[2]) \div 2

C21_Witness ==
    /\ pc = "key" /\ lvl = 192
    /\ \E e \in random_rank_vector(KeyM(skey), KeyN(skey), decoding_capacity(skey)) :
          RankF2(KeyM(skey), VecMat(KeyM(skey), e, skey.p, KeyN(skey))) = 2

-----------------------------------------------------------------------------
(* Specification SpecLoop: random_invertible_subpace_matrix step by step,  *)
(* from line 60, for a subspace dimension that is at most the degree.  cin *)
(* holds the arguments, subfield_matrix and linear_map, cmid holds m, cout  *)
(* holds m.rank().  The linear map is any injective map of                 *)
(* GF(2)^subspace_dimension into GF(2)^deg.                                *)

\* an invertible matrix over GF(4) that random_invertible_matrix(GF(4), 6) may
\* return: w * I + C for the companion matrices C of t^3 + t + 1 and
\* t^3 + t^2 + 1, in two diagonal blocks (w = 2, w + 1 = 3)
StuckDraw ==
    << <<2, 0, 1, 0, 0, 0>>,
       <<1, 2, 1, 0, 0, 0>>,
       <<0, 1, 2, 0, 0, 0>>,
       <<0, 0, 0, 2, 0, 1>>,
       <<0, 0, 0, 1, 2, 0>>,
       <<0, 0, 0, 0, 1, 3>> >>

\* _random_linear_map(subspace, space): for each of the calls, of arguments
\* (degree, subspace_dimension, order), the images of the unit vectors under
\* every linear map of rank subspace_dimension
LinearMaps ==
    Table([call \in {<<2, 2, 1>>, <<2, 2, 2>>, <<3, 2, 1>>, <<3, 2, 2>>, <<3, 3, 2>>, <<3, 2, 6>>} |->
        {w \in [1..call[2] -> 1..(Pow2(call[1]) - 1)] : RankF2(call[1], w) = call[2]}])

\* lines 64, 69-70 and 68: for each call and each subfield_matrix that
\* random_invertible_matrix may return for it, m.rank() of the lift of
\* subfield_matrix under each linear map
LiftRank ==
    Table([draw \in UNION {{<<call, sub>> :
                              sub \in {M \in random_invertible_matrix(call[2], call[3])
                                              \cup (IF Len(StuckDraw) = call[3] /\ call[2] = 2
                                                    THEN {StuckDraw} ELSE {}) :
                                          Rank(call[2], M, call[3]) = call[3]}} :
                           call \in DOMAIN LinearMaps} |->
        Table([w \in LinearMaps[draw[1]] |->
            Rank(draw[1][1], Lift(draw[2], w), draw[1][3])])])

\* lines 60-66: subfield_matrix is sampled, m is the zero matrix, of rank 0
SampleSubfieldMatrix ==
    \E draw \in DOMAIN LiftRank :
        /\ cpc = "idle"
        /\ pc = "start"
        /\ cpc' = "while"
        /\ cin' = [deg |-> draw[1][1], subspace_dimension |-> draw[1][2], order |-> draw[1][3],
                   subfield_matrix |-> draw[2], linear_map |-> <<>>]
        /\ cmid' = Ok(List([i \in 1..draw[1][3] |-> List([j \in 1..draw[1][3] |-> 0])]))
        /\ cout' = Ok(0)
        /\ UNCHANGED <<cipherVars, keyVars>>

\* lines 68-70: m.rank() != order, a linear map is sampled and m is the lift
\* of subfield_matrix; cout holds m.rank()
ResampleLinearMap ==
    /\ cpc = "while"
    /\ cout.val # cin.order
    /\ \E w \in LinearMaps[<<cin.deg, cin.subspace_dimension, cin.order>>] :
          /\ cin' = [cin EXCEPT !.linear_map = w]
          /\ cmid' = Ok(Lift(cin.subfield_matrix, w))
          /\ cout' = Ok(LiftRank[<<<<cin.deg, cin.subspace_dimension, cin.order>>,
                                   cin.subfield_matrix>>][w])
    /\ UNCHANGED <<cpc, cipherVars, keyVars>>

\* lines 68 and 72: m.rank() == order, return m
ReturnMatrix ==
    /\ cpc = "while"
    /\ cout.val = cin.order
    /\ cpc' = "return"
    /\ UNCHANGED <<cin, cmid, cout, cipherVars, keyVars>>

\* fair random choice: the loop goes on, and a map whose lift has full rank, if
\* one can be drawn again and again, is drawn
SpecLoop ==
    /\ Init
    /\ [][SampleSubfieldMatrix \/ ResampleLinearMap \/ ReturnMatrix]_vars
    /\ WF_vars(ResampleLinearMap \/ ReturnMatrix)
    /\ SF_vars(ResampleLinearMap /\ cout'.val = cin.order)

\* C22: termination of the subspace sampler.  For lambda <= m the call
\* eventually returns under fair random choice; the loop keeps the matrix over
\* GF(2^lambda) sampled before it and re-samples only the linear map; and for
\* every invertible matrix over GF(2^lambda) that may be sampled there is an
\* injective linear map whose lift has rank n over GF(2^m).
C22_SamplerTerminates ==
    /\ (cpc = "while") ~> (cpc = "return")
    /\ [][cpc = "while" => cin'.subfield_matrix = cin.subfield_matrix]_vars
    /\ [](cpc = "while"
            => \E w \in LinearMaps[<<cin.deg, cin.subspace_dimension, cin.order>>] :
                  /\ RankF2(cin.deg, w) = cin.subspace_dimension
                  /\ Rank(cin.deg, Lift(cin.subfield_matrix, w), cin.order) = cin.order)

=============================================================================
